---- MODULE Spec2Model ----
(***************************************************************************)
(* Model of the frame-header codec of src/src/lib.rs: the 32-bit packed    *)
(* word, the optional big-endian 64-bit id and pts that trail it, the      *)
(* validating constructor, encode / decode, validate_header, the four      *)
(* extract_* fast paths and the seven in-place patch_* operations.         *)
(*                                                                         *)
(* A u32 is a function from bit positions 0..31 (0 = least significant) to *)
(* {0,1}, so that masks, shifts and the loss of bits shifted past bit 31   *)
(* are what they are in the code.  A byte is a number 0..255.  A u64 is a  *)
(* sequence of four 16-bit limbs, most significant first.  A buffer is a   *)
(* sequence of bytes; Rust's offset k is index k+1 here.                   *)
(***************************************************************************)
EXTENDS Integers, Sequences, FiniteSets, TLC

VARIABLES hdr, buf, pre, call, ret

vars == <<hdr, buf, pre, call, ret>>

(***************************************************************************)
(* Integer primitives                                                      *)
(***************************************************************************)
BitIdx == 0..31

\* A u32 holding the number n, 0 <= n < 2^31.
U32(n) == [i \in BitIdx |-> IF i < 31 THEN (n \div (2^i)) % 2 ELSE 0]

\* `a & b`
And(a, b) == [i \in BitIdx |-> a[i] * b[i]]

\* `a | b`
Or(a, b) == [i \in BitIdx |-> IF a[i] = 1 \/ b[i] = 1 THEN 1 ELSE 0]

\* `!a`
Not(a) == [i \in BitIdx |-> 1 - a[i]]

\* `a << k` on a u32: the bits shifted past bit 31 are lost.
Shl(a, k) == [i \in BitIdx |-> IF i >= k THEN a[i - k] ELSE 0]

\* `a >> k` on a u32 (logical).
Shr(a, k) == [i \in BitIdx |-> IF i + k <= 31 THEN a[i + k] ELSE 0]

\* The number a u32 holds; used on values below 2^16 only (a field after its
\* mask and shift), so the sum stays within TLC's 32-bit integers.
RECURSIVE ValFrom(_, _)
ValFrom(a, i) == IF i > 15 THEN 0 ELSE a[i] * (2^i) + ValFrom(a, i + 1)

Val(a) == ValFrom(a, 0)

\* u32::from_be_bytes on the four bytes b[1..4].
U32FromBe(b) == [i \in BitIdx |-> (b[4 - (i \div 8)] \div (2^(i % 8))) % 2]

\* One byte of a u32: bits 8k+7 .. 8k.
RECURSIVE ByteFrom(_, _, _)
ByteFrom(a, k, j) == IF j > 7 THEN 0 ELSE a[8 * k + j] * (2^j) + ByteFrom(a, k, j + 1)

\* u32::to_be_bytes: most significant byte first.
U32ToBe(a) == <<ByteFrom(a, 3, 0), ByteFrom(a, 2, 0), ByteFrom(a, 1, 0), ByteFrom(a, 0, 0)>>

\* u64::to_be_bytes on four 16-bit limbs, most significant limb first.
U64ToBe(v) == <<v[1] \div 256, v[1] % 256, v[2] \div 256, v[2] % 256,
                v[3] \div 256, v[3] % 256, v[4] \div 256, v[4] % 256>>

\* u64::from_be_bytes on the eight bytes b[1..8].
U64FromBe(b) == <<b[1] * 256 + b[2], b[3] * 256 + b[4],
                  b[5] * 256 + b[6], b[7] * 256 + b[8]>>

\* Rust's slice b[from..to] (offsets, `to` exclusive).
Slice(b, from, to) == SubSeq(b, from + 1, to)

\* Option<T>
None == <<>>

Some(v) == <<v>>

IsSome(o) == o # <<>>

\* `flag as u32` of a bool.
BoolU32(f) == IF f THEN U32(1) ELSE U32(0)

(***************************************************************************)
(* Result<T, E>: one record shape for every T the operations return, the   *)
(* field that carries the value depending on T: flag for bool, num for     *)
(* u16 and usize, enc for EncodingFlag, opt for Option<u64>, hd for a      *)
(* FrameHeader (a sequence of one header; empty otherwise).                *)
(***************************************************************************)
Result(ok, err, flag, num, enc, opt, hd) ==
  [ok |-> ok, err |-> err, flag |-> flag, num |-> num, enc |-> enc, opt |-> opt, hd |-> hd]

Err(e) == Result(FALSE, e, FALSE, 0, "", None, <<>>)

\* Ok(())
OkUnit == Result(TRUE, "", FALSE, 0, "", None, <<>>)

OkBool(b) == Result(TRUE, "", b, 0, "", None, <<>>)

OkNum(n) == Result(TRUE, "", FALSE, n, "", None, <<>>)

OkEnc(e) == Result(TRUE, "", FALSE, 0, e, None, <<>>)

OkOpt(o) == Result(TRUE, "", FALSE, 0, "", o, <<>>)

OkHeader(h) == Result(TRUE, "", FALSE, 0, "", None, <<h>>)

(***************************************************************************)
(* Bit layout                                                              *)
(***************************************************************************)
MAGIC_WORD == 42

MAGIC_SHIFT == 26

\* The magic mask one bit short: 0x3E << 26 leaves bit 26 out of the compare.
MAGIC_MASK_NarrowMask == Shl(U32(62), 26)

MAGIC_MASK == Shl(U32(63), 26)

SAMPLE_RATE_SHIFT == 24

SAMPLE_RATE_MASK == Shl(U32(3), 24)

BITS_SHIFT == 22

BITS_MASK == Shl(U32(3), 22)

PTS_SHIFT == 21

PTS_MASK == Shl(U32(1), 21)

ID_SHIFT == 20

ID_MASK == Shl(U32(1), 20)

ENCODING_SHIFT == 17

ENCODING_MASK == Shl(U32(7), 17)

ENDIAN_SHIFT == 16

ENDIAN_MASK == Shl(U32(1), 16)

CHANNELS_SHIFT == 12

CHANNELS_MASK == Shl(U32(15), 12)

SAMPLE_SIZE_MASK == U32(4095)

VALID_SAMPLE_RATES == {16000, 44100, 48000, 96000}

MAX_SAMPLE_SIZE == 4095

\* `(header & mask) >> shift` as a number.
Field(header, mask, shift) == Val(Shr(And(header, mask), shift))

(***************************************************************************)
(* The enums and the header value                                          *)
(***************************************************************************)
EncodingFlag == {"PCMSigned", "PCMFloat", "Opus", "FLAC", "AAC", "H264"}

\* `encoding as u32`: the enum's discriminant.
EncodingAsU32(e) ==
  CASE e = "PCMSigned" -> 0
    [] e = "PCMFloat" -> 1
    [] e = "Opus" -> 2
    [] e = "FLAC" -> 3
    [] e = "AAC" -> 4
    [] e = "H264" -> 5

Endianness == {"LittleEndian", "BigEndian"}

\* `endianness as u32`
EndiannessAsU32(e) == IF e = "LittleEndian" THEN 0 ELSE 1

FrameHeader(encoding, sample_size, sample_rate, channels, bits_per_sample, endianness, id, pts) ==
  [encoding |-> encoding, sample_size |-> sample_size, sample_rate |-> sample_rate,
   channels |-> channels, bits_per_sample |-> bits_per_sample,
   endianness |-> endianness, id |-> id, pts |-> pts]

\* new with the bit-depth check ahead of the channel check.
new_BitsFirst(encoding, sample_size, sample_rate, channels, bits_per_sample, endianness, id, pts) ==
  IF bits_per_sample \notin {16, 24, 32}
    THEN Err("Bits per sample must be 16, 24, or 32")
  ELSE IF channels = 0 \/ channels > 16
    THEN Err("Channel count must be between 1 and 16")
  ELSE IF sample_size > MAX_SAMPLE_SIZE
    THEN Err("Sample size exceeds maximum value")
  ELSE IF sample_rate \notin VALID_SAMPLE_RATES
    THEN Err("Invalid sample rate")
  ELSE OkHeader(FrameHeader(encoding, sample_size, sample_rate, channels,
                            bits_per_sample, endianness, id, pts))

\* FrameHeader::new: the four checks in the code's order, then the value.
new(encoding, sample_size, sample_rate, channels, bits_per_sample, endianness, id, pts) ==
  IF channels = 0 \/ channels > 16
    THEN Err("Channel count must be between 1 and 16")
  ELSE IF bits_per_sample \notin {16, 24, 32}
    THEN Err("Bits per sample must be 16, 24, or 32")
  ELSE IF sample_size > MAX_SAMPLE_SIZE
    THEN Err("Sample size exceeds maximum value")
  ELSE IF sample_rate \notin VALID_SAMPLE_RATES
    THEN Err("Invalid sample rate")
  ELSE OkHeader(FrameHeader(encoding, sample_size, sample_rate, channels,
                            bits_per_sample, endianness, id, pts))

\* FrameHeader::size
size(h) == 4 + (IF IsSome(h.id) THEN 1 ELSE 0) * 8 + (IF IsSome(h.pts) THEN 1 ELSE 0) * 8

(***************************************************************************)
(* encode / decode                                                         *)
(***************************************************************************)
\* The match of encode and patch_sample_rate: -1 stands for the `_` arm.
SampleRateCode(sample_rate) ==
  CASE sample_rate = 16000 -> 0
    [] sample_rate = 44100 -> 1
    [] sample_rate = 48000 -> 2
    [] sample_rate = 96000 -> 3
    [] OTHER -> -1

\* The match of encode and patch_bits_per_sample: -1 stands for the `_` arm.
BitsCode(bits) ==
  CASE bits = 16 -> 0
    [] bits = 24 -> 1
    [] bits = 32 -> 2
    [] OTHER -> -1

\* EncodeWord with the channel count packed as it is, not as channels - 1.
EncodeWord_ChannelsAsIs(h) ==
  LET w0 == Shl(U32(MAGIC_WORD), MAGIC_SHIFT)
      w1 == Or(w0, Shl(U32(SampleRateCode(h.sample_rate)), SAMPLE_RATE_SHIFT))
      w2 == Or(w1, Shl(U32(BitsCode(h.bits_per_sample)), BITS_SHIFT))
      w3 == Or(w2, Shl(BoolU32(IsSome(h.pts)), PTS_SHIFT))
      w4 == Or(w3, Shl(BoolU32(IsSome(h.id)), ID_SHIFT))
      w5 == Or(w4, Shl(U32(EncodingAsU32(h.encoding)), ENCODING_SHIFT))
      w6 == Or(w5, Shl(U32(EndiannessAsU32(h.endianness)), ENDIAN_SHIFT))
      w7 == Or(w6, Shl(U32(h.channels % 256), CHANNELS_SHIFT))
      w8 == Or(w7, U32(h.sample_size))
  IN  w8

\* The packed word encode builds, one `header |= ...` after the other.
EncodeWord(h) ==
  LET w0 == Shl(U32(MAGIC_WORD), MAGIC_SHIFT)
      w1 == Or(w0, Shl(U32(SampleRateCode(h.sample_rate)), SAMPLE_RATE_SHIFT))
      w2 == Or(w1, Shl(U32(BitsCode(h.bits_per_sample)), BITS_SHIFT))
      w3 == Or(w2, Shl(BoolU32(IsSome(h.pts)), PTS_SHIFT))
      w4 == Or(w3, Shl(BoolU32(IsSome(h.id)), ID_SHIFT))
      w5 == Or(w4, Shl(U32(EncodingAsU32(h.encoding)), ENCODING_SHIFT))
      w6 == Or(w5, Shl(U32(EndiannessAsU32(h.endianness)), ENDIAN_SHIFT))
      w7 == Or(w6, Shl(U32((h.channels - 1) % 256), CHANNELS_SHIFT))
      w8 == Or(w7, U32(h.sample_size))
  IN  w8

\* What a call that writes yields: the result it returns and the bytes of the
\* buffer (or Vec) as they are when it returns.
Patched(result, bytes) == [res |-> result, buf |-> bytes]

\* FrameHeader::encode on the Vec writer: the errors are returned before
\* anything is written; write_all on a Vec appends and cannot fail.
encode(h, writer) ==
  IF SampleRateCode(h.sample_rate) = -1 THEN Patched(Err("InvalidInput"), writer)
  ELSE IF BitsCode(h.bits_per_sample) = -1 THEN Patched(Err("InvalidInput"), writer)
  ELSE Patched(OkUnit,
               writer \o U32ToBe(EncodeWord(h))
                      \o (IF IsSome(h.id) THEN U64ToBe(h.id[1]) ELSE <<>>)
                      \o (IF IsSome(h.pts) THEN U64ToBe(h.pts[1]) ELSE <<>>))

DecodeSampleRate(code) ==
  CASE code = 0 -> 16000
    [] code = 1 -> 44100
    [] code = 2 -> 48000
    [] code = 3 -> 96000
    [] OTHER -> -1

DecodeBits(code) ==
  CASE code = 0 -> 16
    [] code = 1 -> 24
    [] code = 2 -> 32
    [] OTHER -> -1

\* The encoding match with an arm for code 5.
DecodeEncoding_WithH264(code) ==
  CASE code = 0 -> "PCMSigned"
    [] code = 1 -> "PCMFloat"
    [] code = 2 -> "Opus"
    [] code = 3 -> "FLAC"
    [] code = 4 -> "AAC"
    [] code = 5 -> "H264"
    [] OTHER -> "Invalid"

\* The match of decode and extract_encoding: "Invalid" stands for the `_` arm.
DecodeEncoding(code) ==
  CASE code = 0 -> "PCMSigned"
    [] code = 1 -> "PCMFloat"
    [] code = 2 -> "Opus"
    [] code = 3 -> "FLAC"
    [] code = 4 -> "AAC"
    [] OTHER -> "Invalid"

\* decode that reads the trailing bytes before it looks at the codes of the word.
decode_TrailingFirst(b) ==
  IF Len(b) < 4 THEN Err("UnexpectedEof")
  ELSE
    LET header == U32FromBe(Slice(b, 0, 4))
        sample_rate == DecodeSampleRate(Field(header, SAMPLE_RATE_MASK, SAMPLE_RATE_SHIFT))
        bits_per_sample == DecodeBits(Field(header, BITS_MASK, BITS_SHIFT))
        has_pts == Field(header, PTS_MASK, PTS_SHIFT) = 1
        has_id == Field(header, ID_MASK, ID_SHIFT) = 1
        encoding == DecodeEncoding(Field(header, ENCODING_MASK, ENCODING_SHIFT))
        endianness == IF Field(header, ENDIAN_MASK, ENDIAN_SHIFT) = 0
                        THEN "LittleEndian" ELSE "BigEndian"
        channels == (Field(header, CHANNELS_MASK, CHANNELS_SHIFT) + 1) % 256
        sample_size == Val(And(header, SAMPLE_SIZE_MASK)) % 65536
        id_end == IF has_id THEN 12 ELSE 4
        pts_end == IF has_pts THEN id_end + 8 ELSE id_end
    IN  IF Field(header, MAGIC_MASK, MAGIC_SHIFT) # MAGIC_WORD THEN Err("InvalidData")
        ELSE IF has_id /\ Len(b) < id_end THEN Err("UnexpectedEof")
        ELSE IF has_pts /\ Len(b) < pts_end THEN Err("UnexpectedEof")
        ELSE IF sample_rate = -1 THEN Err("InvalidData")
        ELSE IF bits_per_sample = -1 THEN Err("InvalidData")
        ELSE IF encoding = "Invalid" THEN Err("InvalidData")
        ELSE OkHeader(FrameHeader(encoding, sample_size, sample_rate, channels,
                                  bits_per_sample, endianness,
                                  IF has_id THEN Some(U64FromBe(Slice(b, 4, 12))) ELSE None,
                                  IF has_pts THEN Some(U64FromBe(Slice(b, id_end, id_end + 8)))
                                             ELSE None))

\* FrameHeader::decode reading from the slice b: read_exact fails with
\* UnexpectedEof when the bytes left are fewer than asked for.
decode(b) ==
  IF Len(b) < 4 THEN Err("UnexpectedEof")
  ELSE
    LET header == U32FromBe(Slice(b, 0, 4))
        sample_rate == DecodeSampleRate(Field(header, SAMPLE_RATE_MASK, SAMPLE_RATE_SHIFT))
        bits_per_sample == DecodeBits(Field(header, BITS_MASK, BITS_SHIFT))
        has_pts == Field(header, PTS_MASK, PTS_SHIFT) = 1
        has_id == Field(header, ID_MASK, ID_SHIFT) = 1
        encoding == DecodeEncoding(Field(header, ENCODING_MASK, ENCODING_SHIFT))
        endianness == IF Field(header, ENDIAN_MASK, ENDIAN_SHIFT) = 0
                        THEN "LittleEndian" ELSE "BigEndian"
        channels == (Field(header, CHANNELS_MASK, CHANNELS_SHIFT) + 1) % 256
        sample_size == Val(And(header, SAMPLE_SIZE_MASK)) % 65536
        id_end == IF has_id THEN 12 ELSE 4
        pts_end == IF has_pts THEN id_end + 8 ELSE id_end
    IN  IF Field(header, MAGIC_MASK, MAGIC_SHIFT) # MAGIC_WORD THEN Err("InvalidData")
        ELSE IF sample_rate = -1 THEN Err("InvalidData")
        ELSE IF bits_per_sample = -1 THEN Err("InvalidData")
        ELSE IF encoding = "Invalid" THEN Err("InvalidData")
        ELSE IF has_id /\ Len(b) < id_end THEN Err("UnexpectedEof")
        ELSE IF has_pts /\ Len(b) < pts_end THEN Err("UnexpectedEof")
        ELSE OkHeader(FrameHeader(encoding, sample_size, sample_rate, channels,
                                  bits_per_sample, endianness,
                                  IF has_id THEN Some(U64FromBe(Slice(b, 4, 12))) ELSE None,
                                  IF has_pts THEN Some(U64FromBe(Slice(b, id_end, id_end + 8)))
                                             ELSE None))

(***************************************************************************)
(* validate_header and the extract_* fast paths                            *)
(***************************************************************************)
\* The first four bytes of a slice as a u32.
HeaderWord(header_bytes) == U32FromBe(Slice(header_bytes, 0, 4))

\* validate_header without the test of the bits-per-sample code.
validate_header_NoBitsCheck(header_bytes) ==
  IF Len(header_bytes) < 4 THEN Err("Header too small")
  ELSE
    LET header == HeaderWord(header_bytes)
        encoding == Field(header, ENCODING_MASK, ENCODING_SHIFT)
        sample_rate_code == Field(header, SAMPLE_RATE_MASK, SAMPLE_RATE_SHIFT)
        channels == (Field(header, CHANNELS_MASK, CHANNELS_SHIFT) + 1) % 256
    IN  IF Field(header, MAGIC_MASK, MAGIC_SHIFT) # MAGIC_WORD THEN OkBool(FALSE)
        ELSE IF encoding > 4 THEN OkBool(FALSE)
        ELSE IF sample_rate_code > 3 THEN OkBool(FALSE)
        ELSE IF channels = 0 \/ channels > 16 THEN OkBool(FALSE)
        ELSE OkBool(TRUE)

\* validate_header with the encoding bound one too high: `encoding > 5`.
validate_header_EncodingOffByOne(header_bytes) ==
  IF Len(header_bytes) < 4 THEN Err("Header too small")
  ELSE
    LET header == HeaderWord(header_bytes)
        encoding == Field(header, ENCODING_MASK, ENCODING_SHIFT)
        sample_rate_code == Field(header, SAMPLE_RATE_MASK, SAMPLE_RATE_SHIFT)
        channels == (Field(header, CHANNELS_MASK, CHANNELS_SHIFT) + 1) % 256
        bits_code == Field(header, BITS_MASK, BITS_SHIFT)
    IN  IF Field(header, MAGIC_MASK, MAGIC_SHIFT) # MAGIC_WORD THEN OkBool(FALSE)
        ELSE IF encoding > 5 THEN OkBool(FALSE)
        ELSE IF sample_rate_code > 3 THEN OkBool(FALSE)
        ELSE IF channels = 0 \/ channels > 16 THEN OkBool(FALSE)
        ELSE IF bits_code > 2 THEN OkBool(FALSE)
        ELSE OkBool(TRUE)

validate_header(header_bytes) ==
  IF Len(header_bytes) < 4 THEN Err("Header too small")
  ELSE
    LET header == HeaderWord(header_bytes)
        encoding == Field(header, ENCODING_MASK, ENCODING_SHIFT)
        sample_rate_code == Field(header, SAMPLE_RATE_MASK, SAMPLE_RATE_SHIFT)
        channels == (Field(header, CHANNELS_MASK, CHANNELS_SHIFT) + 1) % 256
        bits_code == Field(header, BITS_MASK, BITS_SHIFT)
    IN  IF Field(header, MAGIC_MASK, MAGIC_SHIFT) # MAGIC_WORD THEN OkBool(FALSE)
        ELSE IF encoding > 4 THEN OkBool(FALSE)
        ELSE IF sample_rate_code > 3 THEN OkBool(FALSE)
        ELSE IF channels = 0 \/ channels > 16 THEN OkBool(FALSE)
        ELSE IF bits_code > 2 THEN OkBool(FALSE)
        ELSE OkBool(TRUE)

\* extract_sample_count with a mask one bit short: 0x7FF.
extract_sample_count_ElevenBits(header_bytes) ==
  IF Len(header_bytes) < 4 THEN Err("Header too small")
  ELSE
    LET header == HeaderWord(header_bytes)
    IN  IF Field(header, MAGIC_MASK, MAGIC_SHIFT) # MAGIC_WORD THEN Err("Invalid magic word")
        ELSE OkNum(Val(And(header, U32(2047))) % 65536)

extract_sample_count(header_bytes) ==
  IF Len(header_bytes) < 4 THEN Err("Header too small")
  ELSE
    LET header == HeaderWord(header_bytes)
    IN  IF Field(header, MAGIC_MASK, MAGIC_SHIFT) # MAGIC_WORD THEN Err("Invalid magic word")
        ELSE OkNum(Val(And(header, SAMPLE_SIZE_MASK)) % 65536)

extract_encoding(header_bytes) ==
  IF Len(header_bytes) < 4 THEN Err("Header too small")
  ELSE
    LET header == HeaderWord(header_bytes)
        encoding == DecodeEncoding(Field(header, ENCODING_MASK, ENCODING_SHIFT))
    IN  IF Field(header, MAGIC_MASK, MAGIC_SHIFT) # MAGIC_WORD THEN Err("Invalid magic word")
        ELSE IF encoding = "Invalid" THEN Err("Invalid encoding flag")
        ELSE OkEnc(encoding)

\* extract_id with the length test ahead of the presence test.
extract_id_LengthFirst(header_bytes) ==
  IF Len(header_bytes) < 4 THEN Err("Header too small")
  ELSE
    LET header == HeaderWord(header_bytes)
    IN  IF Field(header, MAGIC_MASK, MAGIC_SHIFT) # MAGIC_WORD THEN Err("Invalid magic word")
        ELSE IF Len(header_bytes) < 12
          THEN Err("Header indicates ID present but buffer too small")
        ELSE IF Field(header, ID_MASK, ID_SHIFT) = 0 THEN OkOpt(None)
        ELSE OkOpt(Some(U64FromBe(Slice(header_bytes, 4, 12))))

extract_id(header_bytes) ==
  IF Len(header_bytes) < 4 THEN Err("Header too small")
  ELSE
    LET header == HeaderWord(header_bytes)
    IN  IF Field(header, MAGIC_MASK, MAGIC_SHIFT) # MAGIC_WORD THEN Err("Invalid magic word")
        ELSE IF Field(header, ID_MASK, ID_SHIFT) = 0 THEN OkOpt(None)
        ELSE IF Len(header_bytes) < 12
          THEN Err("Header indicates ID present but buffer too small")
        ELSE OkOpt(Some(U64FromBe(Slice(header_bytes, 4, 12))))

\* extract_pts reading at offset 4 whether or not the id is present.
extract_pts_OffsetFour(header_bytes) ==
  IF Len(header_bytes) < 4 THEN Err("Header too small")
  ELSE
    LET header == HeaderWord(header_bytes)
        has_pts == Field(header, PTS_MASK, PTS_SHIFT) = 1
        pts_offset == 4
    IN  IF Field(header, MAGIC_MASK, MAGIC_SHIFT) # MAGIC_WORD THEN Err("Invalid magic word")
        ELSE IF ~has_pts THEN OkOpt(None)
        ELSE IF Len(header_bytes) < pts_offset + 8
          THEN Err("Header indicates PTS present but buffer too small")
        ELSE OkOpt(Some(U64FromBe(Slice(header_bytes, pts_offset, pts_offset + 8))))

extract_pts(header_bytes) ==
  IF Len(header_bytes) < 4 THEN Err("Header too small")
  ELSE
    LET header == HeaderWord(header_bytes)
        has_pts == Field(header, PTS_MASK, PTS_SHIFT) = 1
        has_id == Field(header, ID_MASK, ID_SHIFT) = 1
        pts_offset == 4 + (IF has_id THEN 8 ELSE 0)
    IN  IF Field(header, MAGIC_MASK, MAGIC_SHIFT) # MAGIC_WORD THEN Err("Invalid magic word")
        ELSE IF ~has_pts THEN OkOpt(None)
        ELSE IF Len(header_bytes) < pts_offset + 8
          THEN Err("Header indicates PTS present but buffer too small")
        ELSE OkOpt(Some(U64FromBe(Slice(header_bytes, pts_offset, pts_offset + 8))))

(***************************************************************************)
(* The patch_* operations.  Each yields the result it returns and the      *)
(* buffer as it is when it returns.                                        *)
(***************************************************************************)
\* header_bytes[from .. from + Len(src)].copy_from_slice(src)
CopyFromSlice(header_bytes, from, src) ==
  [i \in 1..Len(header_bytes) |->
     IF i > from /\ i <= from + Len(src) THEN src[i - from] ELSE header_bytes[i]]

\* `if !Self::validate_header(header_bytes)? { return Err("Invalid header") }`:
\* the error a patch returns before it reads anything else, or Ok.
PatchGate(header_bytes) ==
  LET v == validate_header(header_bytes)
  IN  IF ~v.ok THEN v
      ELSE IF ~v.flag THEN Err("Invalid header")
      ELSE OkUnit

\* PatchWord without the clearing of the field: header |= code << shift.
PatchWord_NoClear(header_bytes, mask, shift, code) ==
  LET header == HeaderWord(header_bytes)
      patched == Or(header, And(Shl(U32(code), shift), mask))
  IN  CopyFromSlice(header_bytes, 0, U32ToBe(patched))

\* `header &= !mask; header |= (code << shift) & mask;` written back to [..4].
PatchWord(header_bytes, mask, shift, code) ==
  LET header == And(HeaderWord(header_bytes), Not(mask))
      patched == Or(header, And(Shl(U32(code), shift), mask))
  IN  CopyFromSlice(header_bytes, 0, U32ToBe(patched))

patch_bits_per_sample(header_bytes, bits) ==
  LET gate == PatchGate(header_bytes)
  IN  IF ~gate.ok THEN Patched(gate, header_bytes)
      ELSE IF BitsCode(bits) = -1
        THEN Patched(Err("Bits per sample must be 16, 24, or 32"), header_bytes)
      ELSE Patched(OkUnit, PatchWord(header_bytes, BITS_MASK, BITS_SHIFT, BitsCode(bits)))

\* patch_sample_size ORs the new value in without masking it.
patch_sample_size(header_bytes, new_sample_size) ==
  LET gate == PatchGate(header_bytes)
      header == And(HeaderWord(header_bytes), Not(SAMPLE_SIZE_MASK))
      patched == Or(header, U32(new_sample_size))
  IN  IF ~gate.ok THEN Patched(gate, header_bytes)
      ELSE IF new_sample_size > MAX_SAMPLE_SIZE
        THEN Patched(Err("Sample size exceeds maximum value"), header_bytes)
      ELSE Patched(OkUnit, CopyFromSlice(header_bytes, 0, U32ToBe(patched)))

patch_encoding(header_bytes, encoding) ==
  LET gate == PatchGate(header_bytes)
  IN  IF ~gate.ok THEN Patched(gate, header_bytes)
      ELSE Patched(OkUnit, PatchWord(header_bytes, ENCODING_MASK, ENCODING_SHIFT,
                                       EncodingAsU32(encoding)))

patch_sample_rate(header_bytes, sample_rate) ==
  LET gate == PatchGate(header_bytes)
  IN  IF ~gate.ok THEN Patched(gate, header_bytes)
      ELSE IF SampleRateCode(sample_rate) = -1
        THEN Patched(Err("Invalid sample rate"), header_bytes)
      ELSE Patched(OkUnit, PatchWord(header_bytes, SAMPLE_RATE_MASK, SAMPLE_RATE_SHIFT,
                                       SampleRateCode(sample_rate)))

patch_channels(header_bytes, channels) ==
  LET gate == PatchGate(header_bytes)
  IN  IF ~gate.ok THEN Patched(gate, header_bytes)
      ELSE IF channels = 0 \/ channels > 16
        THEN Patched(Err("Channel count must be between 1 and 16"), header_bytes)
      ELSE Patched(OkUnit, PatchWord(header_bytes, CHANNELS_MASK, CHANNELS_SHIFT,
                                       (channels - 1) % 256))

\* patch_id that skips the write when the buffer has no room, and reports Ok.
patch_id_SilentOnShort(header_bytes, id) ==
  LET gate == PatchGate(header_bytes)
      header == And(HeaderWord(header_bytes), Not(ID_MASK))
      patched == Or(header, And(Shl(BoolU32(IsSome(id)), ID_SHIFT), ID_MASK))
      written == CopyFromSlice(header_bytes, 0, U32ToBe(patched))
  IN  IF ~gate.ok THEN Patched(gate, header_bytes)
      ELSE IF IsSome(id)
        THEN IF Len(written) < 12
               THEN Patched(OkUnit, written)
               ELSE Patched(OkUnit, CopyFromSlice(written, 4, U64ToBe(id[1])))
      ELSE Patched(OkUnit, written)

\* patch_id writes the word back before it looks at the buffer's length.
patch_id(header_bytes, id) ==
  LET gate == PatchGate(header_bytes)
      header == And(HeaderWord(header_bytes), Not(ID_MASK))
      patched == Or(header, And(Shl(BoolU32(IsSome(id)), ID_SHIFT), ID_MASK))
      written == CopyFromSlice(header_bytes, 0, U32ToBe(patched))
  IN  IF ~gate.ok THEN Patched(gate, header_bytes)
      ELSE IF IsSome(id)
        THEN IF Len(written) < 12
               THEN Patched(Err("Buffer too small to add ID"), written)
               ELSE Patched(OkUnit, CopyFromSlice(written, 4, U64ToBe(id[1])))
      ELSE Patched(OkUnit, written)

\* patch_pts that zeroes the former pts bytes when it clears the field.
patch_pts_ZeroOnClear(header_bytes, pts) ==
  LET gate == PatchGate(header_bytes)
      header == And(HeaderWord(header_bytes), Not(PTS_MASK))
      patched == Or(header, And(Shl(BoolU32(IsSome(pts)), PTS_SHIFT), PTS_MASK))
      has_id == Field(patched, ID_MASK, ID_SHIFT) = 1
      pts_offset == 4 + (IF has_id THEN 8 ELSE 0)
      zeroed == IF Len(header_bytes) < pts_offset + 8 THEN header_bytes
                ELSE CopyFromSlice(header_bytes, pts_offset, <<0, 0, 0, 0, 0, 0, 0, 0>>)
  IN  IF ~gate.ok THEN Patched(gate, header_bytes)
      ELSE IF IsSome(pts)
        THEN IF Len(header_bytes) < pts_offset + 8
               THEN Patched(Err("Buffer too small to add PTS"), header_bytes)
               ELSE Patched(OkUnit,
                            CopyFromSlice(CopyFromSlice(header_bytes, pts_offset,
                                                        U64ToBe(pts[1])),
                                          0, U32ToBe(patched)))
      ELSE Patched(OkUnit, CopyFromSlice(zeroed, 0, U32ToBe(patched)))

\* patch_pts writing at offset 4 whether or not the id is present.
patch_pts_OffsetFour(header_bytes, pts) ==
  LET gate == PatchGate(header_bytes)
      header == And(HeaderWord(header_bytes), Not(PTS_MASK))
      patched == Or(header, And(Shl(BoolU32(IsSome(pts)), PTS_SHIFT), PTS_MASK))
      pts_offset == 4
  IN  IF ~gate.ok THEN Patched(gate, header_bytes)
      ELSE IF IsSome(pts)
        THEN IF Len(header_bytes) < pts_offset + 8
               THEN Patched(Err("Buffer too small to add PTS"), header_bytes)
               ELSE Patched(OkUnit,
                            CopyFromSlice(CopyFromSlice(header_bytes, pts_offset,
                                                        U64ToBe(pts[1])),
                                          0, U32ToBe(patched)))
      ELSE Patched(OkUnit, CopyFromSlice(header_bytes, 0, U32ToBe(patched)))

\* patch_pts writes the pts bytes first and the word last, after the length check.
patch_pts(header_bytes, pts) ==
  LET gate == PatchGate(header_bytes)
      header == And(HeaderWord(header_bytes), Not(PTS_MASK))
      patched == Or(header, And(Shl(BoolU32(IsSome(pts)), PTS_SHIFT), PTS_MASK))
      has_id == Field(patched, ID_MASK, ID_SHIFT) = 1
      pts_offset == 4 + (IF has_id THEN 8 ELSE 0)
  IN  IF ~gate.ok THEN Patched(gate, header_bytes)
      ELSE IF IsSome(pts)
        THEN IF Len(header_bytes) < pts_offset + 8
               THEN Patched(Err("Buffer too small to add PTS"), header_bytes)
               ELSE Patched(OkUnit,
                            CopyFromSlice(CopyFromSlice(header_bytes, pts_offset,
                                                        U64ToBe(pts[1])),
                                          0, U32ToBe(patched)))
      ELSE Patched(OkUnit, CopyFromSlice(header_bytes, 0, U32ToBe(patched)))

(***************************************************************************)
(* Inputs: the values the callers pass                                     *)
(***************************************************************************)
\* The longest buffer a caller hands in: the 20 bytes of a full header and
\* the bytes of payload that follow it.
MaxLen == 21

\* 0x0123456789ABCDEF and 0xDEADBEEF (the tests' ids), as 16-bit limbs.
IdA == <<291, 17767, 35243, 52719>>

IdB == <<0, 0, 57005, 48879>>

\* u64::MAX
IdMax == <<65535, 65535, 65535, 65535>>

U64Values == {IdA, IdB}

OptU64 == {None} \cup {Some(v) : v \in U64Values}

\* Arguments of new and of the patches: the legal values at both ends of each
\* range, and the illegal ones next to them.
SampleSizeArgs == {0, 4095, 4096}

SampleRateArgs == {16000, 96000, 192000}

ChannelArgs == {0, 1, 16, 17}

BitsArgs == {16, 32, 20}

EncodingArgs == {"PCMSigned", "AAC", "H264"}

\* The word of a caller's buffer, field by field; any six bits may stand where
\* the magic goes, and any code in a field.
RawWord(magic, rate, bits, pts, id, enc, endian, ch, ssize) ==
  Or(Shl(U32(magic), MAGIC_SHIFT),
  Or(Shl(U32(rate), SAMPLE_RATE_SHIFT),
  Or(Shl(U32(bits), BITS_SHIFT),
  Or(Shl(U32(pts), PTS_SHIFT),
  Or(Shl(U32(id), ID_SHIFT),
  Or(Shl(U32(enc), ENCODING_SHIFT),
  Or(Shl(U32(endian), ENDIAN_SHIFT),
  Or(Shl(U32(ch), CHANNELS_SHIFT), U32(ssize)))))))))

\* The first n bytes of a word, two 8-byte slots and one byte of payload.
RawBuffer(word, slot1, slot2, n) ==
  SubSeq(U32ToBe(word) \o U64ToBe(slot1) \o U64ToBe(slot2) \o [i \in 1..(MaxLen - 20) |-> 238],
         1, n)

\* Buffer lengths: around each place a length is compared (4, 12, 20).
Lengths == {0, 3, 4, 11, 12, 19} \cup 20..MaxLen

\* Buffers with the magic in place: every field at the codes the patch
\* arguments give it, and at the codes no header has (bits 3, encoding 7).
MagicBuffers ==
  {RawBuffer(RawWord(MAGIC_WORD, rate, bits, pts, id, enc, endian, ch, ssize), s1, s2, n) :
     rate \in {0, 3}, bits \in {0, 2, 3}, pts \in {0, 1}, id \in {0, 1},
     enc \in {0, 4, 5, 7}, endian \in {0, 1}, ch \in {0, 15}, ssize \in {0, 4095},
     s1 \in U64Values, s2 \in U64Values, n \in Lengths}

\* What stands in the magic's place in a buffer that is no header: the magic
\* with one bit flipped, one more, one less, shifted one bit either way, zero,
\* all ones.
BadMagics == {43, 40, 46, 34, 58, 10, 41, 21, 20, 0, 63}

BadMagicBuffers ==
  {RawBuffer(RawWord(magic, x.rate, x.bits, pts, id, x.enc, x.endian, x.ch, x.ssize),
             IdA, IdB, n) :
     magic \in BadMagics,
     x \in {[rate |-> 0, bits |-> 0, enc |-> 0, endian |-> 0, ch |-> 0, ssize |-> 0],
            [rate |-> 2, bits |-> 1, enc |-> 2, endian |-> 0, ch |-> 1, ssize |-> 960],
            [rate |-> 3, bits |-> 3, enc |-> 7, endian |-> 1, ch |-> 15, ssize |-> 4095]},
     pts \in {0, 1}, id \in {0, 1}, n \in Lengths \ {0, 3}}

Buffers == MagicBuffers \cup BadMagicBuffers

\* Arguments of new: every encoding, every legal rate and depth, and the
\* values on both sides of each bound.
NewSampleSizes == {0, 960, 4095, 4096}

NewSampleRates == VALID_SAMPLE_RATES \cup {8000}

NewChannels == {0, 1, 2, 16, 17}

NewBits == {8, 16, 24, 32}

NewU64 == {None, Some(IdA), Some(IdMax)}

(***************************************************************************)
(* State: the live header value (Option), the caller's buffer, and a       *)
(* record of the call in progress: its name and argument, the buffer       *)
(* before it, and what it returned.  The caller makes one call at a time:  *)
(* call.op is "idle" between calls.                                        *)
(***************************************************************************)
\* A call and its argument: num for a number, enc for an EncodingFlag, opt for
\* an Option<u64>, args for the eight arguments of new (a sequence of one
\* record; empty otherwise).
Call(op, num, enc, opt, args) == [op |-> op, num |-> num, enc |-> enc, opt |-> opt, args |-> args]

CallNoArg(op) == Call(op, 0, "", None, <<>>)

CallNum(op, n) == Call(op, n, "", None, <<>>)

CallEnc(op, e) == Call(op, 0, e, None, <<>>)

CallOpt(op, o) == Call(op, 0, "", o, <<>>)

Idle == call.op = "idle"

\* A caller's buffer of raw bytes; no header value has been made.
Init ==
  /\ hdr = None
  /\ buf \in Buffers
  /\ pre = buf
  /\ call = CallNoArg("idle")
  /\ ret = OkUnit

\* No buffer yet: the caller is about to construct a header.
InitCodec ==
  /\ hdr = None
  /\ buf = <<>>
  /\ pre = buf
  /\ call = CallNoArg("idle")
  /\ ret = OkUnit

\* A call that only reads the buffer.
Reads(op, result) ==
  /\ Idle
  /\ call' = CallNoArg(op)
  /\ ret' = result
  /\ pre' = buf
  /\ UNCHANGED <<hdr, buf>>

\* A patch_* call c on the buffer, p being what the operation yields.
Patches(c, p) ==
  /\ Idle
  /\ call' = c
  /\ ret' = p.res
  /\ pre' = buf
  /\ buf' = p.buf
  /\ UNCHANGED hdr

\* The caller has taken the result and goes on with the header and the buffer.
Return ==
  /\ ~Idle
  /\ call' = CallNoArg("idle")
  /\ ret' = OkUnit
  /\ pre' = buf
  /\ UNCHANGED <<hdr, buf>>

\* FrameHeader::new(...): the caller keeps the header it returns.
New ==
  /\ Idle
  /\ hdr = None
  /\ \E encoding \in EncodingFlag, sample_size \in NewSampleSizes,
        sample_rate \in NewSampleRates, channels \in NewChannels,
        bits_per_sample \in NewBits, endianness \in Endianness,
        id \in NewU64, pts \in NewU64 :
       LET r == new(encoding, sample_size, sample_rate, channels, bits_per_sample,
                    endianness, id, pts)
       IN  /\ call' = Call("new", 0, "", None,
                           <<FrameHeader(encoding, sample_size, sample_rate, channels,
                                         bits_per_sample, endianness, id, pts)>>)
           /\ ret' = r
           /\ hdr' = r.hd
  /\ pre' = buf
  /\ UNCHANGED buf

\* header.encode(&mut buffer) with the caller's fresh Vec as the writer.
Encode ==
  /\ Idle
  /\ IsSome(hdr)
  /\ buf = <<>>
  /\ LET w == encode(hdr[1], buf)
     IN  /\ ret' = w.res
         /\ buf' = w.buf
  /\ call' = CallNoArg("encode")
  /\ pre' = buf
  /\ UNCHANGED hdr

\* header.size()
Size ==
  /\ Idle
  /\ IsSome(hdr)
  /\ call' = CallNoArg("size")
  /\ ret' = OkNum(size(hdr[1]))
  /\ pre' = buf
  /\ UNCHANGED <<hdr, buf>>

ValidateHeader == Reads("validate_header", validate_header(buf))

Decode == Reads("decode", decode(buf))

ExtractSampleCount == Reads("extract_sample_count", extract_sample_count(buf))

ExtractEncoding == Reads("extract_encoding", extract_encoding(buf))

ExtractId == Reads("extract_id", extract_id(buf))

ExtractPts == Reads("extract_pts", extract_pts(buf))

PatchBitsPerSample ==
  \E bits \in BitsArgs :
    Patches(CallNum("patch_bits_per_sample", bits), patch_bits_per_sample(buf, bits))

PatchSampleSize ==
  \E n \in SampleSizeArgs :
    Patches(CallNum("patch_sample_size", n), patch_sample_size(buf, n))

PatchEncoding ==
  \E e \in EncodingArgs :
    Patches(CallEnc("patch_encoding", e), patch_encoding(buf, e))

PatchSampleRate ==
  \E r \in SampleRateArgs :
    Patches(CallNum("patch_sample_rate", r), patch_sample_rate(buf, r))

PatchChannels ==
  \E c \in ChannelArgs :
    Patches(CallNum("patch_channels", c), patch_channels(buf, c))

PatchId == \E id \in OptU64 : Patches(CallOpt("patch_id", id), patch_id(buf, id))

PatchPts == \E pts \in OptU64 : Patches(CallOpt("patch_pts", pts), patch_pts(buf, pts))

\* The buffer-level operations on a caller's buffer.
Next ==
  \/ ValidateHeader
  \/ Decode
  \/ ExtractSampleCount
  \/ ExtractEncoding
  \/ ExtractId
  \/ ExtractPts
  \/ PatchBitsPerSample
  \/ PatchSampleSize
  \/ PatchEncoding
  \/ PatchSampleRate
  \/ PatchChannels
  \/ PatchId
  \/ PatchPts
  \/ Return

Spec == Init /\ [][Next]_vars

\* Construct, encode into a fresh Vec, then read the bytes back.
NextCodec ==
  \/ New
  \/ Encode
  \/ Size
  \/ Decode
  \/ ValidateHeader
  \/ ExtractSampleCount
  \/ ExtractEncoding
  \/ ExtractId
  \/ ExtractPts
  \/ Return

SpecCodec == InitCodec /\ [][NextCodec]_vars

\* The bytes encode writes for h into an empty Vec.
EncodedBytes(h) == encode(h, <<>>).buf

\* The caller's buffer holds exactly what encode wrote for the live header.
FreshlyEncoded == IsSome(hdr) /\ buf # <<>> /\ buf = EncodedBytes(hdr[1])

\* Construct, encode, then patch one fixed field of the encoded bytes in place.
NextPatched ==
  \/ New
  \/ Encode
  \/ /\ Idle
     /\ FreshlyEncoded
     /\ \/ PatchBitsPerSample
        \/ PatchSampleSize
        \/ PatchEncoding
        \/ PatchSampleRate
        \/ PatchChannels
  \/ Return

SpecPatched == InitCodec /\ [][NextPatched]_vars

\* The headers whose encoded bytes a caller copies into a larger buffer: every
\* combination of id and pts absent or present.
TrailingHeaders ==
  {FrameHeader(encoding, 960, 48000, 2, 16, "LittleEndian", id, pts) :
     encoding \in {"Opus", "PCMSigned"}, id \in NewU64, pts \in NewU64}

\* vec![0; n] with b copied to its front: extended_bytes[..b.len()].copy_from_slice(&b)
Extended(b, n) == CopyFromSlice([i \in 1..n |-> 0], 0, b)

\* An encoded header in a 20-byte buffer, with room for both trailing fields.
InitTrailing ==
  /\ \E h \in TrailingHeaders :
       /\ hdr = Some(h)
       /\ buf = Extended(EncodedBytes(h), 20)
  /\ pre = buf
  /\ call = CallNoArg("idle")
  /\ ret = OkUnit

\* patch_id and patch_pts in any order on that buffer, and the two extractors.
NextTrailing ==
  \/ PatchId
  \/ PatchPts
  \/ ExtractId
  \/ ExtractPts
  \/ Return

SpecTrailing == InitTrailing /\ [][NextTrailing]_vars

(***************************************************************************)
(* Vocabulary of the properties: the wire format read off the bytes with   *)
(* plain arithmetic, independently of the masks and shifts above.          *)
(***************************************************************************)
PatchOps == {"patch_bits_per_sample", "patch_sample_size", "patch_encoding",
             "patch_sample_rate", "patch_channels", "patch_id", "patch_pts"}

FixedPatchOps == PatchOps \ {"patch_id", "patch_pts"}

ExtractOps == {"extract_sample_count", "extract_encoding", "extract_id", "extract_pts"}

\* In SpecCodec the buffer is empty until Encode has appended the bytes of
\* hdr to it, and nothing writes to it afterwards.
Encoded == IsSome(hdr) /\ buf # <<>>

\* The top six bits of byte 0.
MagicOf(b) == b[1] \div 4

\* Bit 21 and bit 20 of the word: bits 5 and 4 of byte 1.
PtsBitOf(b) == (b[2] \div 32) % 2

IdBitOf(b) == (b[2] \div 16) % 2

\* The 64-bit big-endian number in the 8 bytes at offset off, as 16-bit limbs.
BeAt(b, off) == [k \in 1..4 |-> b[off + 2 * k - 1] * 256 + b[off + 2 * k]]

\* Wire codes as the format's table gives them.
WireRate(r) == CASE r = 16000 -> 0 [] r = 44100 -> 1 [] r = 48000 -> 2 [] r = 96000 -> 3

WireBits(n) == CASE n = 16 -> 0 [] n = 24 -> 1 [] n = 32 -> 2

WireEncoding(e) ==
  CASE e = "PCMSigned" -> 0 [] e = "PCMFloat" -> 1 [] e = "Opus" -> 2
    [] e = "FLAC" -> 3 [] e = "AAC" -> 4 [] e = "H264" -> 5

Present(o) == IF o = <<>> THEN 0 ELSE 1

\* The number in bits hi..lo of a word.
RECURSIVE BitsVal(_, _, _)
BitsVal(w, lo, hi) == IF lo > hi THEN 0 ELSE w[lo] + 2 * BitsVal(w, lo + 1, hi)

\* The bits a fixed-field patch may write, and the code it must leave there.
FieldLo(op) ==
  CASE op = "patch_sample_size" -> 0 [] op = "patch_channels" -> 12
    [] op = "patch_encoding" -> 17 [] op = "patch_bits_per_sample" -> 22
    [] op = "patch_sample_rate" -> 24

FieldHi(op) ==
  CASE op = "patch_sample_size" -> 11 [] op = "patch_channels" -> 15
    [] op = "patch_encoding" -> 19 [] op = "patch_bits_per_sample" -> 23
    [] op = "patch_sample_rate" -> 25

FieldCode(c) ==
  CASE c.op = "patch_sample_size" -> c.num
    [] c.op = "patch_channels" -> c.num - 1
    [] c.op = "patch_encoding" -> WireEncoding(c.enc)
    [] c.op = "patch_bits_per_sample" -> WireBits(c.num)
    [] c.op = "patch_sample_rate" -> WireRate(c.num)

\* The encoding code (bits 19..17) and the bits-per-sample code (bits 23..22)
\* of the word, read off byte 1.
EncCodeOf(b) == (b[2] \div 2) % 8

BitsCodeOf(b) == b[2] \div 64

\* The word is one validate_header accepts: right magic, defined codes.
WellFormedWord(b) == MagicOf(b) = 42 /\ EncCodeOf(b) <= 4 /\ BitsCodeOf(b) <= 2

\* The header h with the field a fixed-field patch call c names set to c's argument.
WithField(h, c) ==
  CASE c.op = "patch_sample_size" -> [h EXCEPT !.sample_size = c.num]
    [] c.op = "patch_channels" -> [h EXCEPT !.channels = c.num]
    [] c.op = "patch_encoding" -> [h EXCEPT !.encoding = c.enc]
    [] c.op = "patch_bits_per_sample" -> [h EXCEPT !.bits_per_sample = c.num]
    [] c.op = "patch_sample_rate" -> [h EXCEPT !.sample_rate = c.num]

\* What new returns for the fields of h.
NewOf(h) ==
  new(h.encoding, h.sample_size, h.sample_rate, h.channels, h.bits_per_sample,
      h.endianness, h.id, h.pts)

\* A buffer validate_header accepts, said of the bytes.
Validates(b) == Len(b) >= 4 /\ WellFormedWord(b)

\* The call in progress is patch_id or patch_pts.
TrailingPatchOps == {"patch_id", "patch_pts"}

(***************************************************************************)
(* Properties                                                              *)
(***************************************************************************)

\* C1: round trip.  Decoding the bytes encode wrote for the header new
\* accepted succeeds and gives back that header, field for field.
\* Fails: new accepts H264, encode writes code 5, decode rejects code 5.
C1_RoundTrip ==
  (call.op = "decode" /\ Encoded) => (ret.ok /\ ret.hd = hdr)

\* C2: field isolation of the five fixed-field patches.  When one of them
\* returns Ok, the field's bits hold the wire code of the new value, every
\* other bit of the word is as before, and so is every byte from offset 4 on.
C2_FixedPatchIsolation ==
  (call.op \in FixedPatchOps /\ ret.ok) =>
    LET w == U32FromBe(SubSeq(buf, 1, 4))
        w0 == U32FromBe(SubSeq(pre, 1, 4))
        lo == FieldLo(call.op)
        hi == FieldHi(call.op)
    IN  /\ BitsVal(w, lo, hi) = FieldCode(call)
        /\ \A i \in 0..31 : (i < lo \/ i > hi) => w[i] = w0[i]
        /\ Len(buf) = Len(pre)
        /\ \A k \in 5..Len(pre) : buf[k] = pre[k]

\* A patch of the channel count that changed the word of a buffer with both
\* trailing fields in it.
C2_Witness ==
  /\ call.op = "patch_channels"
  /\ call.num = 16
  /\ ret.ok
  /\ buf # pre
  /\ Len(buf) >= 20
  /\ IdBitOf(buf) = 1
  /\ PtsBitOf(buf) = 1

\* C3: field isolation of patch_id.  On a buffer that decodes, after patch_id
\* returns Ok the buffer decodes to the same header with id replaced.
\* Fails: with pts present, setting or clearing id moves the place pts is
\* read from, and patch_id moves no bytes.
C3_PatchIdIsolation ==
  (call.op = "patch_id" /\ ret.ok /\ decode(pre).ok) =>
    /\ decode(buf).ok
    /\ decode(buf).hd[1] = [decode(pre).hd[1] EXCEPT !.id = call.opt]

\* C4: field isolation of patch_pts.  On a buffer that decodes, after
\* patch_pts returns Ok the buffer decodes to the same header with pts replaced.
C4_PatchPtsIsolation ==
  (call.op = "patch_pts" /\ ret.ok /\ decode(pre).ok) =>
    /\ decode(buf).ok
    /\ decode(buf).hd[1] = [decode(pre).hd[1] EXCEPT !.pts = call.opt]

\* patch_pts wrote a new value behind an id that is present.
C4_Witness ==
  /\ call.op = "patch_pts"
  /\ ret.ok
  /\ decode(pre).ok
  /\ IsSome(decode(pre).hd[1].id)
  /\ IsSome(call.opt)
  /\ decode(pre).hd[1].pts # call.opt
  /\ decode(pre).hd[1].id # call.opt

\* C5: fail-closed patching.  A patch that returns an error leaves the
\* buffer byte for byte as it was.
\* Fails: patch_id(Some) writes the word with the id bit set, then finds the
\* buffer shorter than 12 bytes and returns the error.
C5_FailClosed ==
  (call.op \in PatchOps /\ ~ret.ok) => buf = pre

\* C6: magic gate.  On a buffer of at least 4 bytes whose top six bits are not
\* 0x2A, validate_header returns Ok(false) and decode and the four extract_*
\* return an error.
C6_MagicGate ==
  (Len(buf) >= 4 /\ MagicOf(buf) # 42) =>
    /\ call.op = "validate_header" => (ret.ok /\ ret.flag = FALSE)
    /\ call.op \in ExtractOps \cup {"decode"} => ~ret.ok

\* extract_pts refused a full-length buffer whose magic is one too low.
C6_Witness ==
  /\ call.op = "extract_pts"
  /\ Len(buf) >= 20
  /\ MagicOf(buf) = 41
  /\ PtsBitOf(buf) = 1
  /\ ~ret.ok

\* C7: presence/offset coupling in extract_pts.  With the magic right and the
\* pts bit set, the result is the big-endian value of bytes 12..20 when the id
\* bit is set and of bytes 4..12 when it is clear.
C7_ExtractPtsOffset ==
  (call.op = "extract_pts" /\ Len(buf) >= 4 /\ MagicOf(buf) = 42 /\ PtsBitOf(buf) = 1) =>
    /\ (IdBitOf(buf) = 1 /\ Len(buf) >= 20) => (ret.ok /\ ret.opt = Some(BeAt(buf, 12)))
    /\ (IdBitOf(buf) = 0 /\ Len(buf) >= 12) => (ret.ok /\ ret.opt = Some(BeAt(buf, 4)))

\* extract_pts read offset 12 of a buffer whose bytes at offset 4 differ.
C7_Witness ==
  /\ call.op = "extract_pts"
  /\ ret.ok
  /\ ret.opt # None
  /\ Len(buf) >= 20
  /\ IdBitOf(buf) = 1
  /\ BeAt(buf, 4) # BeAt(buf, 12)

\* C8: extract_id and extract_pts with the magic right.  Presence bit clear:
\* Ok(None) at every length >= 4.  Presence bit set and the buffer shorter
\* than the field's end (12 for id; 12 or 20 for pts): an error.
C8_ExtractPresence ==
  (Len(buf) >= 4 /\ MagicOf(buf) = 42) =>
    /\ (call.op = "extract_id" /\ IdBitOf(buf) = 0) => (ret.ok /\ ret.opt = None)
    /\ (call.op = "extract_pts" /\ PtsBitOf(buf) = 0) => (ret.ok /\ ret.opt = None)
    /\ (call.op = "extract_id" /\ IdBitOf(buf) = 1 /\ Len(buf) < 12) => ~ret.ok
    /\ (call.op = "extract_pts" /\ PtsBitOf(buf) = 1
          /\ Len(buf) < (IF IdBitOf(buf) = 1 THEN 20 ELSE 12)) => ~ret.ok

\* extract_pts refused a buffer that holds the id but only part of the pts.
C8_Witness ==
  /\ call.op = "extract_pts"
  /\ Len(buf) = 19
  /\ MagicOf(buf) = 42
  /\ PtsBitOf(buf) = 1
  /\ IdBitOf(buf) = 1
  /\ ~ret.ok

\* C9: wire size.  encode writes exactly size() bytes, size() being
\* 4 + 8*(id present) + 8*(pts present), and the header decoded from those
\* bytes reports the same size().
\* Fails for the decoded header: the bytes of an H264 header do not decode (C1).
C9_WireSize ==
  /\ (call.op = "encode" /\ ret.ok) =>
       /\ Len(buf) = size(hdr[1])
       /\ size(hdr[1]) = 4 + 8 * Present(hdr[1].id) + 8 * Present(hdr[1].pts)
  /\ (call.op = "decode" /\ Encoded) => (ret.ok /\ size(ret.hd[1]) = size(hdr[1]))

C11_ValidateResult ==
  call.op = "validate_header" =>
    /\ ret.ok <=> Len(buf) >= 4
    /\ Len(buf) >= 4 => (ret.flag <=> WellFormedWord(buf))

\* validate_header accepted a 4-byte buffer whose presence bits both promise
\* trailing bytes.
C11_Witness ==
  /\ call.op = "validate_header"
  /\ Len(buf) = 4
  /\ IdBitOf(buf) = 1
  /\ PtsBitOf(buf) = 1
  /\ ret.ok
  /\ ret.flag

\* C12: constructor validation.  new returns Ok exactly when channels is in
\* 1..16, bits_per_sample is 16, 24 or 32, sample_size <= 4095 and sample_rate
\* is one of the four rates; the error is that of the first failing check in
\* the order channels, bits_per_sample, sample_size, sample_rate; on Ok the
\* stored fields are the inputs.
C12_ConstructorValidation ==
  call.op = "new" =>
    LET a == call.args[1]
        channelsOk == a.channels >= 1 /\ a.channels <= 16
        bitsOk == a.bits_per_sample \in {16, 24, 32}
        sizeOk == a.sample_size <= 4095
        rateOk == a.sample_rate \in {16000, 44100, 48000, 96000}
    IN  /\ ret.ok <=> (channelsOk /\ bitsOk /\ sizeOk /\ rateOk)
        /\ ret.ok => (ret.hd = call.args /\ hdr = call.args)
        /\ ~ret.ok =>
             /\ hdr = None
             /\ ret.err = (IF ~channelsOk THEN "Channel count must be between 1 and 16"
                           ELSE IF ~bitsOk THEN "Bits per sample must be 16, 24, or 32"
                           ELSE IF ~sizeOk THEN "Sample size exceeds maximum value"
                           ELSE "Invalid sample rate")

\* new refused inputs that fail all four checks, with the channel error.
C12_Witness ==
  /\ call.op = "new"
  /\ call.args[1].channels = 17
  /\ call.args[1].bits_per_sample = 8
  /\ call.args[1].sample_size = 4096
  /\ call.args[1].sample_rate = 8000
  /\ ~ret.ok
  /\ ret.err = "Channel count must be between 1 and 16"

\* C13: patch equals direct construction.  A fixed-field patch applied to the
\* bytes encode wrote for an accepted header h returns Ok exactly for the
\* values new accepts for that field, and then the buffer equals the bytes
\* encode writes for h with that field replaced.
\* Fails: the bytes of an H264 header do not validate, so every patch of them
\* is refused, whatever the value (C18).
C13_PatchEqualsConstruction ==
  (call.op \in FixedPatchOps /\ IsSome(hdr) /\ pre = EncodedBytes(hdr[1])) =>
    LET h2 == WithField(hdr[1], call)
    IN  /\ ret.ok <=> NewOf(h2).ok
        /\ ret.ok => buf = EncodedBytes(h2)

\* C18: encode never emits bytes the format rejects.  Either encode returns
\* an error and has written nothing, or validate_header returns Ok(true) on
\* the bytes and decode succeeds on them.
\* Fails: an H264 header is written with encoding code 5.
C18_EncodeAccepted ==
  call.op = "encode" =>
    \/ ~ret.ok /\ buf = <<>>
    \/ ret.ok /\ validate_header(buf) = OkBool(TRUE) /\ decode(buf).ok

\* C19: validity is preserved by patching.  A patch call on a buffer that
\* validate_header accepts, succeeding or failing, leaves a buffer that
\* validate_header accepts.
\* Fails: patch_encoding writes H264 as code 5, which validate_header refuses.
C19_ValidityPreserved ==
  (call.op \in PatchOps /\ validate_header(pre) = OkBool(TRUE)) =>
    validate_header(buf) = OkBool(TRUE)

\* C14: setting id or pts in place.  On a buffer that validates,
\* patch_id(Some(v)) returns Ok iff the buffer has at least 12 bytes and
\* patch_pts(Some(v)) iff it has offset + 8 bytes, offset being 12 with the id
\* bit set and 4 without; the buffer keeps its length; on Ok the presence bit
\* is set, the 8 bytes at the offset are v big-endian, and extract_id /
\* extract_pts returns Some(v).
C14_SetInPlace ==
  (call.op \in TrailingPatchOps /\ IsSome(call.opt) /\ Validates(pre)) =>
    LET isId == call.op = "patch_id"
        off == IF isId THEN 4 ELSE IF IdBitOf(pre) = 1 THEN 12 ELSE 4
    IN  /\ ret.ok <=> Len(pre) >= off + 8
        /\ Len(buf) = Len(pre)
        /\ ret.ok =>
             /\ (IF isId THEN IdBitOf(buf) ELSE PtsBitOf(buf)) = 1
             /\ BeAt(buf, off) = call.opt[1]
             /\ (IF isId THEN extract_id(buf) ELSE extract_pts(buf)) = OkOpt(call.opt)

\* patch_pts added a pts behind an id that was already there.
C14_Witness ==
  /\ call.op = "patch_pts"
  /\ IsSome(call.opt)
  /\ ret.ok
  /\ Len(pre) = 20
  /\ IdBitOf(pre) = 1
  /\ PtsBitOf(pre) = 0
  /\ BeAt(pre, 12) # call.opt[1]

\* C15: clearing id or pts in place.  On a buffer that validates, of any
\* length >= 4, patch_id(None) and patch_pts(None) return Ok, clear that one
\* presence bit and no other bit of the word, leave every byte from offset 4
\* on as it was, and extract_id / extract_pts then returns Ok(None).
C15_ClearInPlace ==
  (call.op \in TrailingPatchOps /\ call.opt = None /\ Validates(pre)) =>
    LET isId == call.op = "patch_id"
        bit == IF isId THEN 20 ELSE 21
        w == U32FromBe(SubSeq(buf, 1, 4))
        w0 == U32FromBe(SubSeq(pre, 1, 4))
    IN  /\ ret.ok
        /\ w[bit] = 0
        /\ \A i \in 0..31 : i # bit => w[i] = w0[i]
        /\ Len(buf) = Len(pre)
        /\ \A k \in 5..Len(pre) : buf[k] = pre[k]
        /\ (IF isId THEN extract_id(buf) ELSE extract_pts(buf)) = OkOpt(None)

\* patch_id cleared an id that was present; its bytes are still in the buffer.
C15_Witness ==
  /\ call.op = "patch_id"
  /\ call.opt = None
  /\ ret.ok
  /\ Len(pre) >= 12
  /\ IdBitOf(pre) = 1
  /\ IdBitOf(buf) = 0
  /\ BeAt(buf, 4) = IdA

\* C16: the error kinds of decode.  UnexpectedEof exactly when the source has
\* fewer than 4 bytes, or the word is well formed and the source is shorter
\* than the presence bits require; InvalidData when the magic is wrong or the
\* encoding or bits-per-sample code is undefined, whatever trails the word.
C16_DecodeErrorKinds ==
  call.op = "decode" =>
    IF Len(buf) < 4 THEN ~ret.ok /\ ret.err = "UnexpectedEof"
    ELSE IF ~WellFormedWord(buf) THEN ~ret.ok /\ ret.err = "InvalidData"
    ELSE IF Len(buf) < 4 + 8 * IdBitOf(buf) + 8 * PtsBitOf(buf)
      THEN ~ret.ok /\ ret.err = "UnexpectedEof"
    ELSE ret.ok

\* decode refused an undefined encoding code on a bare word whose presence
\* bits both ask for trailing bytes.
C16_Witness ==
  /\ call.op = "decode"
  /\ Len(buf) = 4
  /\ MagicOf(buf) = 42
  /\ EncCodeOf(buf) = 5
  /\ IdBitOf(buf) = 1
  /\ PtsBitOf(buf) = 1
  /\ ret.err = "InvalidData"

\* C17: the fast-path extractors agree with decode.  On a buffer decode
\* accepts with header d, extract_sample_count returns d.sample_size,
\* extract_encoding d.encoding, extract_id d.id and extract_pts d.pts.
C17_ExtractAgreesWithDecode ==
  (call.op \in ExtractOps /\ decode(buf).ok) =>
    LET d == decode(buf).hd[1]
    IN  /\ ret.ok
        /\ call.op = "extract_sample_count" => ret.num = d.sample_size
        /\ call.op = "extract_encoding" => ret.enc = d.encoding
        /\ call.op = "extract_id" => ret.opt = d.id
        /\ call.op = "extract_pts" => ret.opt = d.pts

\* extract_pts read the pts of a 12-byte buffer that has no id.
C17_Witness ==
  /\ call.op = "extract_pts"
  /\ Len(buf) = 12
  /\ IdBitOf(buf) = 0
  /\ decode(buf).ok
  /\ ret.opt = Some(IdA)

\* C20: the presence bits stay synchronized with the trailing bytes under any
\* order of patches.  Starting from an encoded header in a 20-byte buffer,
\* extract_id returns the argument of the latest successful patch_id and
\* extract_pts that of the latest successful patch_pts (the original values
\* when there was none): each successful patch_id sets what extract_id returns
\* and leaves what extract_pts returns, and each successful patch_pts the
\* other way round.
\* Fails: patch_id changes the id bit, and with it the offset extract_pts reads,
\* without moving the pts bytes (C3).
C20_PresenceSynchronized ==
  (call.op \in TrailingPatchOps /\ ret.ok) =>
    /\ extract_id(buf) = (IF call.op = "patch_id" THEN OkOpt(call.opt) ELSE extract_id(pre))
    /\ extract_pts(buf) = (IF call.op = "patch_pts" THEN OkOpt(call.opt) ELSE extract_pts(pre))

\* C21: every header decode returns satisfies the data-model invariants.
\* When decode returns Ok(d): 1 <= d.channels <= 16, d.bits_per_sample is 16,
\* 24 or 32, d.sample_size <= 4095, d.sample_rate is one of the four rates,
\* d.encoding is one of the five wire-encodable tags, and new accepts d's fields.
C21_DecodedInvariants ==
  (call.op = "decode" /\ ret.ok) =>
    LET d == ret.hd[1]
    IN  /\ d.channels >= 1 /\ d.channels <= 16
        /\ d.bits_per_sample \in {16, 24, 32}
        /\ d.sample_size >= 0 /\ d.sample_size <= 4095
        /\ d.sample_rate \in {16000, 44100, 48000, 96000}
        /\ d.encoding \in {"PCMSigned", "PCMFloat", "Opus", "FLAC", "AAC"}
        /\ NewOf(d).ok
        /\ NewOf(d).hd[1] = d

\* decode returned a header with every fixed field at its largest wire code.
C21_Witness ==
  /\ call.op = "decode"
  /\ ret.ok
  /\ ret.hd[1].channels = 16
  /\ ret.hd[1].sample_size = 4095
  /\ ret.hd[1].sample_rate = 96000
  /\ ret.hd[1].bits_per_sample = 32
  /\ ret.hd[1].encoding = "AAC"
  /\ IsSome(ret.hd[1].id)
  /\ IsSome(ret.hd[1].pts)

\* C22: validate_header and decode agree on the fixed word.  On a buffer of at
\* least 4 bytes validate_header returns Ok(true) iff decode does not fail
\* with InvalidData; when the buffer also holds the trailing bytes its
\* presence bits require, validate_header returns Ok(true) iff decode succeeds.
C22_ValidateAgreesWithDecode ==
  (call.op \in {"validate_header", "decode"} /\ Len(buf) >= 4) =>
    LET v == IF call.op = "validate_header" THEN ret ELSE validate_header(buf)
        d == IF call.op = "decode" THEN ret ELSE decode(buf)
    IN  /\ v.ok
        /\ v.flag <=> d.err # "InvalidData"
        /\ Len(buf) >= 4 + 8 * IdBitOf(buf) + 8 * PtsBitOf(buf) => (v.flag <=> d.ok)

\* validate_header refused a full-length buffer for its bits-per-sample code
\* alone, the code on which decode fails with InvalidData.
C22_Witness ==
  /\ call.op = "validate_header"
  /\ Len(buf) >= 20
  /\ MagicOf(buf) = 42
  /\ EncCodeOf(buf) <= 4
  /\ BitsCodeOf(buf) = 3
  /\ ret.ok
  /\ ~ret.flag
  /\ decode(buf).err = "InvalidData"

====
